---- MODULE Spec2Model ----
(***************************************************************************)
(* Model of scheduler-script.py: the job table and run-history table of    *)
(* DatabaseManager, Scheduler.schedule_job with its job_wrapper closure,   *)
(* ScriptExecutor.execute, the `schedule` registrations the closure makes, *)
(* and the commands of main (add, remove, run).                            *)
(*                                                                         *)
(* Time is a natural number of clock quanta.  A calendar day is Day quanta *)
(* long; datetime.now() is `now`; a time of day (HH:MM:SS) is a number in  *)
(* 0..Day-1; a timedelta is a number of quanta.  The control loop polls    *)
(* once per second, which is not longer than a quantum, so an idle loop    *)
(* sees every value of `now`.                                              *)
(***************************************************************************)
EXTENDS Integers, Sequences, FiniteSets, TLC

\* ------------------------------------------------------------------ bounds

\* Quanta per calendar day (the period of schedule.every().day).
Day == 4

\* The clock stops advancing at MaxTime.
MaxTime == 5

\* At most MaxRuns rows are ever inserted into job_runs.
MaxRuns == 2

\* The job ids handed out by add (uuid4 values).
JobIds == {"j1", "j2"}
IdOrder == [id \in JobIds |-> IF id = "j1" THEN 1 ELSE 2]

\* The (start_time, repeat_time) pairs add is called with, in quanta: an
\* interval that divides the day, one shorter than a day that does not divide
\* it, and one longer than a day.
JobDefs == {<<0, 1>>, <<1, 3>>, <<0, 5>>}

\* How the external process of an execution can end.
Outcomes == {"exit0", "nonzero", "launch_failed"}

\* ------------------------------------------------------------------- state

VARIABLES
    now,        \* datetime.now()
    jobs,       \* table jobs: id -> row, or NoJob when the id has no row
    job_runs,   \* table job_runs: sequence of rows, the index is the row id
    pc,         \* where the `run` process is: down, idle, pending, exec, returned
    registry,   \* schedule's job list in the run process: tag -> registration
    job_info,   \* the job_info dict each job_wrapper closure holds
    runnable,   \* run_pending's sorted list of due jobs still to be run
    cur,        \* the execute call in progress: job id, run id, current_time, exit
    exec_ret,   \* the value execute returned, until job_wrapper drops it
    loaded      \* main's local `jobs`: the rows get_all_jobs returned, until
                \* the loop starts (it is not read afterwards)

\* Columns of table jobs the rows above leave out, each kept as a table of
\* its own, and the state of the other parts of the program.
VARIABLES
    script,         \* column script: id -> what the checks read of the path
    repeat_time,    \* parse_interval's argument: a sequence of characters
    parsed,         \* what parse_interval made of it, NotCalled before the call
    argv,           \* the arguments of the last add or mod command
    cli_exit,       \* how that command ended: ok, error, hung ("none": no command yet)
    startup_error,  \* the ids whose schedule_job raised in the last startup
    job_name,       \* column name: id -> a sequence of characters
    log_path,       \* column log_path: id -> a directory, NoPath without one
    dirs,           \* the directories that exist under log_dir
    info_log,       \* name and log_path in the job_info dict of each closure
    files,          \* the files under log_dir: directory, kind, time of
                    \* creation (birth), os.path.getctime (ctime), text
    last_cleanup_check, \* LogManager.last_cleanup_check
    global_retention,   \* LogManager.global_retention, in days
    log_retention,  \* column log_retention: id -> days, or NoRetention (NULL)
    removed,        \* the files the last sweep logged as deleted
    schedule_jobs,  \* schedule's job list as a list: one entry per Job object,
                    \* with its tag, its times and its closure's job_info
    pending_jobs    \* run_pending's sorted list of due Job objects still to run

coreVars == <<now, jobs, job_runs, pc, registry, job_info, runnable, cur, exec_ret,
              loaded>>

scriptVars == <<script>>
parseVars == <<repeat_time, parsed>>
cliVars == <<argv, cli_exit>>
startupVars == <<startup_error>>
logVars == <<job_name, log_path, dirs, info_log>>
sweepVars == <<files, last_cleanup_check, global_retention, log_retention, removed>>
listVars == <<schedule_jobs, pending_jobs>>

auxVars == <<scriptVars, parseVars, cliVars, startupVars, logVars, sweepVars, listVars>>

\* What the actions of one part leave alone of the other parts.
notScript == <<parseVars, cliVars, startupVars, logVars, sweepVars, listVars>>
notParse == <<scriptVars, cliVars, startupVars, logVars, sweepVars, listVars>>
notCli == <<scriptVars, parseVars, startupVars, logVars, sweepVars, listVars>>
notStartup == <<scriptVars, parseVars, cliVars, logVars, sweepVars, listVars>>
notLog == <<scriptVars, parseVars, cliVars, startupVars, sweepVars, listVars>>
notLogOrSweep == <<scriptVars, parseVars, cliVars, startupVars, listVars>>
notList == <<scriptVars, parseVars, cliVars, startupVars, logVars, sweepVars>>

vars == <<coreVars, auxVars>>

NoJob  == [absent |-> TRUE]
NoReg  == [unregistered |-> TRUE]
NoInfo == [unbound |-> TRUE]
NoCur  == [none |-> TRUE]
Nothing == [id \in JobIds |-> NoJob]
NoScript == [unset |-> TRUE]
NotCalled == [called |-> FALSE]
Raised == [raised |-> TRUE]
NoArgv == [command |-> "none"]
NoPath == [nowhere |-> TRUE]
NoRetention == [null |-> TRUE]

\* log_dir itself, as a directory of the walk.
RootDir == [base |-> <<>>, suffix |-> 0]

\* The values of --log_retention (days) the commands are given.
GlobalRetentions == {1, 2}

\* ----------------------------------------------------------- pure helpers

\* now.date(): the first quantum of the calendar day holding t.
DateOf(t) == (t \div Day) * Day

\* datetime.time(): the time of day of t, what strftime("%H:%M:%S") keeps.
TimeOf(t) == t % Day

\* calculate_next_run's loop: add interval while first_run <= now.
RECURSIVE AdvancePast(_, _, _)
AdvancePast(first_run, interval, t) ==
    IF first_run <= t THEN AdvancePast(first_run + interval, interval, t)
    ELSE first_run

\* calculate_next_run with the loop test first_run < now: a first_run equal
\* to now is returned as it is.
RECURSIVE AdvanceTo(_, _, _)
AdvanceTo(first_run, interval, t) ==
    IF first_run < t THEN AdvanceTo(first_run + interval, interval, t)
    ELSE first_run

calculate_next_run_nonstrict(t, start_time, interval) ==
    AdvanceTo(DateOf(t) + start_time, interval, t)

\* calculate_next_run: today's date combined with start_time, then the loop.
calculate_next_run(t, start_time, interval) ==
    AdvancePast(DateOf(t) + start_time, interval, t)

\* schedule.every().day.at(hms).do(f): the registration's first next_run is
\* the next time the clock shows at_time: today when at_time is still ahead
\* of now.time(), tomorrow otherwise.
RegisterDaily(t, at_time) ==
    [at_time  |-> at_time,
     next_run |-> IF at_time > TimeOf(t) THEN DateOf(t) + at_time
                  ELSE DateOf(t) + Day + at_time]

\* The job_info dict schedule_job builds at time t.
JobInfo(t, start_time, interval) ==
    [start_time       |-> start_time,
     interval_seconds |-> interval,
     next_run         |-> calculate_next_run(t, start_time, interval),
     active           |-> TRUE]

\* save_job: upsert of the row from a job_info dict.
save_job(table, id, info) ==
    [table EXCEPT ![id] = [start_time       |-> info.start_time,
                           interval_seconds |-> info.interval_seconds,
                           next_run         |-> info.next_run,
                           active           |-> info.active]]

\* get_job: SELECT ... WHERE id = ? AND active = 1.
get_job(id) == IF jobs[id] # NoJob /\ jobs[id].active THEN jobs[id] ELSE NoJob

\* get_all_jobs: the ids of the rows with active = 1.
get_all_jobs == {id \in JobIds : jobs[id] # NoJob /\ jobs[id].active}

\* A deactivate_job that deletes: DELETE FROM jobs WHERE id = ?.
deactivate_job_delete(table, id) == [table EXCEPT ![id] = NoJob]

\* deactivate_job: UPDATE jobs SET active = 0 WHERE id = ?.
deactivate_job(table, id) == [table EXCEPT ![id].active = FALSE]

\* Job.should_run over schedule's job list: now >= next_run.
ShouldRun == {id \in JobIds : registry[id] # NoReg /\ now >= registry[id].next_run}

\* record_job_run: insert a row in status running, without end_time.  The
\* timestamps of the run rows are written and never read: start_time is left
\* out, end_time is kept as NULL or set.
record_job_run(table, id) ==
    Append(table, [job_id |-> id, end_time |-> "NULL", status |-> "running"])

\* update_job_run: status and end_time of one run row.
update_job_run(table, run_id, status) ==
    [table EXCEPT ![run_id].status = status, ![run_id].end_time = "set"]

\* execute without its last except branch: a launch failure leaves the row
\* in status running.
StatusOfUncaught(outcome) ==
    IF outcome = "exit0" THEN "success"
    ELSE IF outcome = "nonzero" THEN "error" ELSE "running"

\* The status execute records for the way the process ended: success after
\* subprocess.run returned, error in both except branches.
StatusOf(outcome) == IF outcome = "exit0" THEN "success" ELSE "error"

\* What execute returns: True after success, False in both except branches.
ReturnOf(outcome) == (outcome = "exit0")

\* job_wrapper advancing next_run until it is past now (a catch-up loop).
AdvanceInfoCatchUp(info) ==
    [info EXCEPT !.next_run = AdvancePast(info.next_run + info.interval_seconds,
                                          info.interval_seconds, now)]

\* job_wrapper after execute: job_info['next_run'] += job_info['interval'].
AdvanceInfo(info) == [info EXCEPT !.next_run = info.next_run + info.interval_seconds]

\* uuid.uuid4(): an id no row has.  The ids are opaque, so the model hands
\* them out in a fixed order.
NextId == CHOOSE id \in JobIds \cup {"none"} :
             \/ id = "none" /\ \A j \in JobIds : jobs[j] # NoJob
             \/ /\ id \in JobIds
                /\ jobs[id] = NoJob
                /\ \A j \in JobIds : jobs[j] = NoJob => IdOrder[id] <= IdOrder[j]

\* ------------------------------------------------------------------- Init

\* The components the scheduler's own actions never touch, at rest.
ScriptInit == script = [id \in JobIds |-> NoScript]

ParseInit == repeat_time = <<>> /\ parsed = NotCalled

CliInit == argv = NoArgv /\ cli_exit = "none"

StartupInit == startup_error = {}

LogInit ==
    /\ job_name = [id \in JobIds |-> <<>>]
    /\ log_path = [id \in JobIds |-> NoPath]
    /\ dirs = {}
    /\ info_log = [id \in JobIds |-> NoInfo]

\* LogManager.__init__ at time 0 with --log_retention days: the main log
\* file is opened in log_dir, the gate of the sweeper starts now.
SweepInit(days) ==
    /\ files = {[dir |-> RootDir, kind |-> "log", birth |-> 0, ctime |-> 0,
                 text |-> <<>>]}
    /\ last_cleanup_check = 0
    /\ global_retention = days
    /\ log_retention = [id \in JobIds |-> NoRetention]
    /\ removed = {}

\* No schedule_job call yet: schedule's job list is empty.
ListInit == schedule_jobs = <<>> /\ pending_jobs = <<>>

AuxInit ==
    /\ ScriptInit /\ ParseInit /\ CliInit /\ StartupInit /\ LogInit /\ SweepInit(1)
    /\ ListInit

CoreInit ==
    /\ now = 0
    /\ jobs = Nothing
    /\ job_runs = <<>>
    /\ pc = "down"
    /\ registry = [id \in JobIds |-> NoReg]
    /\ job_info = [id \in JobIds |-> NoInfo]
    /\ runnable = {}
    /\ cur = NoCur
    /\ exec_ret = "none"
    /\ loaded = Nothing

Init ==
    /\ CoreInit
    /\ AuxInit

\* ---------------------------------------------------------------- actions

\* main, command add, in a process of its own: schedule_job for a new id.
\* The registration it makes dies with that process; the row stays.
AddJob(id, start_time, interval) ==
    /\ id = NextId
    /\ jobs' = save_job(jobs, id, JobInfo(now, start_time, interval))
    /\ UNCHANGED <<now, job_runs, pc, registry, job_info, runnable, cur, exec_ret, loaded>>
    /\ UNCHANGED auxVars

\* main, command remove, in a process of its own: deactivate_job, then
\* schedule.clear on that process's own (empty) job list.
RemoveJob(id) ==
    /\ get_job(id) # NoJob
    /\ jobs' = deactivate_job(jobs, id)
    /\ UNCHANGED <<now, job_runs, pc, registry, job_info, runnable, cur, exec_ret, loaded>>
    /\ UNCHANGED auxVars

\* The loop of main's run command: schedule_job for every row loaded.
ScheduleLoaded ==
    LET active == get_all_jobs
        info(id) == JobInfo(now, jobs[id].start_time, jobs[id].interval_seconds)
    IN /\ job_info' = [id \in JobIds |-> IF id \in active THEN info(id) ELSE NoInfo]
       /\ registry' = [id \in JobIds |->
                         IF id \in active
                         THEN RegisterDaily(now, TimeOf(info(id).next_run))
                         ELSE NoReg]
       /\ jobs' = [id \in JobIds |->
                         IF id \in active
                         THEN save_job(jobs, id, info(id))[id]
                         ELSE jobs[id]]

\* A startup that back-fills: a loaded job whose stored next_run has passed
\* is run once, to completion, before the loop starts.
StartSchedulerBackfill ==
    /\ pc = "down"
    /\ loaded' = [id \in JobIds |-> get_job(id)]
    /\ ScheduleLoaded
    /\ pc' = "idle"
    /\ job_runs' = IF \E id \in get_all_jobs : jobs[id].next_run <= now
                   THEN update_job_run(
                            record_job_run(job_runs,
                                CHOOSE id \in get_all_jobs : jobs[id].next_run <= now),
                            Len(job_runs) + 1, "success")
                   ELSE job_runs
    /\ UNCHANGED <<now, runnable, cur, exec_ret>>
    /\ UNCHANGED auxVars

\* main, command run, up to the loop: get_all_jobs, then schedule_job for
\* every row it returned.
StartScheduler ==
    /\ pc = "down"
    /\ loaded' = [id \in JobIds |-> get_job(id)]
    /\ ScheduleLoaded
    /\ pc' = "idle"
    /\ UNCHANGED <<now, job_runs, runnable, cur, exec_ret>>
    /\ UNCHANGED auxVars

\* schedule.run_pending: collect the registrations that should run.
RunPending ==
    /\ pc = "idle"
    /\ ShouldRun # {}
    /\ runnable' = ShouldRun
    /\ pc' = "pending"
    /\ loaded' = Nothing
    /\ UNCHANGED <<now, jobs, job_runs, registry, job_info, cur, exec_ret>>
    /\ UNCHANGED auxVars

\* run_pending runs the due jobs in the order of their next_run: job_wrapper
\* calls execute, which inserts the run row and launches the process.
ExecuteStart(id) ==
    /\ pc = "pending"
    /\ id \in runnable
    /\ \A other \in runnable : registry[id].next_run <= registry[other].next_run
    /\ Len(job_runs) < MaxRuns
    /\ job_runs' = record_job_run(job_runs, id)
    /\ cur' = [id |-> id, run_id |-> Len(job_runs) + 1, current_time |-> now,
               exit |-> "none"]
    /\ runnable' = runnable \ {id}
    /\ pc' = "exec"
    /\ UNCHANGED <<now, jobs, registry, job_info, exec_ret, loaded>>
    /\ UNCHANGED auxVars

\* The external process ends and execute returns: update_job_run, return.
ExecuteReturn(outcome) ==
    /\ pc = "exec"
    /\ job_runs' = update_job_run(job_runs, cur.run_id, StatusOf(outcome))
    /\ exec_ret' = ReturnOf(outcome)
    /\ cur' = [cur EXCEPT !.exit = outcome]
    /\ pc' = "returned"
    /\ UNCHANGED <<now, jobs, registry, job_info, runnable, loaded>>
    /\ UNCHANGED auxVars

\* The rest of job_wrapper: advance job_info's next_run, save_job, clear the
\* tag, register again at the new time of day.
WrapperRest ==
    /\ pc = "returned"
    /\ LET id   == cur.id
           info == AdvanceInfo(job_info[id])
       IN /\ job_info' = [job_info EXCEPT ![id] = info]
          /\ jobs' = save_job(jobs, id, info)
          /\ registry' = [registry EXCEPT ![id] = RegisterDaily(now, TimeOf(info.next_run))]
    /\ cur' = NoCur
    /\ exec_ret' = "none"
    /\ pc' = IF runnable = {} THEN "idle" ELSE "pending"
    /\ UNCHANGED <<now, job_runs, runnable, loaded>>
    /\ UNCHANGED auxVars

\* KeyboardInterrupt anywhere in the loop: the run process ends.
StopScheduler ==
    /\ pc # "down"
    /\ pc' = "down"
    /\ registry' = [id \in JobIds |-> NoReg]
    /\ job_info' = [id \in JobIds |-> NoInfo]
    /\ runnable' = {}
    /\ cur' = NoCur
    /\ exec_ret' = "none"
    /\ loaded' = Nothing
    /\ UNCHANGED <<now, jobs, job_runs>>
    /\ UNCHANGED auxVars

\* Time passes: while no run process exists, while the external process of an
\* execution runs, and in time.sleep(1) when run_pending found nothing due.
Tick ==
    /\ now < MaxTime
    /\ \/ pc = "down"
       \/ pc = "exec"
       \/ pc = "idle" /\ ShouldRun = {}
    /\ now' = now + 1
    /\ loaded' = IF pc = "idle" THEN Nothing ELSE loaded
    /\ UNCHANGED <<jobs, job_runs, pc, registry, job_info, runnable, cur, exec_ret>>
    /\ UNCHANGED auxVars

Next ==
    \/ \E id \in JobIds, def \in JobDefs : AddJob(id, def[1], def[2])
    \/ \E id \in JobIds : RemoveJob(id)
    \/ StartScheduler
    \/ RunPending
    \/ \E id \in JobIds : ExecuteStart(id)
    \/ \E o \in Outcomes : ExecuteReturn(o)
    \/ WrapperRest
    \/ StopScheduler
    \/ Tick

Spec == Init /\ [][Next]_vars

\* ----------------------------------------------------------------- claims

\* A step that completes a firing: job_wrapper's code after execute.
FiringCompletes == pc = "returned" /\ pc' \in {"idle", "pending"}

\* The step of main's run command that loads and reschedules the active jobs.
Recovers == pc = "down" /\ pc' = "idle"

\* The run rows of job id.
RunsOf(id) == {i \in 1 .. Len(job_runs) : job_runs[i].job_id = id}

\* C1: at every tick the jobs fired are exactly the scheduled jobs whose
\* persisted next_run is <= now: no execution starts before its job's
\* persisted next_run, and a scheduled job whose next_run has been reached is
\* among the jobs the idle loop is about to run.
C1_FiresExactlyDueJobs ==
    /\ pc = "exec" => jobs[cur.id].next_run <= cur.current_time
    /\ pc = "idle" =>
          \A id \in JobIds :
              (registry[id] # NoReg /\ get_job(id) # NoJob /\ jobs[id].next_run <= now)
                  => id \in ShouldRun

\* C2: a firing inserts exactly one run row, for the fired job, and its
\* completion moves the persisted next_run from v to exactly v + interval,
\* however many intervals have passed since v.
C2_FiringAdvancesOnce ==
    [][/\ (pc = "pending" /\ pc' = "exec") =>
              /\ Len(job_runs') = Len(job_runs) + 1
              /\ job_runs'[Len(job_runs')].job_id = cur'.id
              /\ jobs' = jobs
       /\ (pc = "exec" /\ pc' = "exec") => Len(job_runs') = Len(job_runs)
       /\ (pc = "exec" /\ pc' = "returned") =>
              Len(job_runs') = Len(job_runs) /\ jobs' = jobs
       /\ FiringCompletes =>
              /\ job_runs' = job_runs
              /\ jobs'[cur.id].next_run =
                     jobs[cur.id].next_run + jobs[cur.id].interval_seconds
      ]_vars

\* C2 witness: a firing has completed (its run row is closed, the loop is idle
\* again) and the job's advanced next_run is still behind now: more than one
\* interval had passed since v.
C2_Witness ==
    /\ pc = "idle"
    /\ \E id \in JobIds :
          /\ job_info[id] # NoInfo
          /\ \E i \in RunsOf(id) : job_runs[i].status # "running"
          /\ jobs[id].next_run < now

\* C3: schedule_job at time t (from add, or from the run command's startup)
\* persists next_run = (date of t combined with start_time) + k * interval for
\* the smallest k >= 0 that makes it greater than t.
C3_FirstNextRun ==
    [][\A id \in JobIds :
          (\/ jobs[id] = NoJob /\ jobs'[id] # NoJob
           \/ Recovers /\ id \in get_all_jobs)
          => LET r    == jobs'[id]
                 base == DateOf(now) + r.start_time
                 d    == r.interval_seconds
             IN /\ r.next_run > now
                /\ r.next_run >= base
                /\ (r.next_run - base) % d = 0
                /\ (r.next_run = base \/ r.next_run - d <= now)
      ]_vars

\* C3 witness: a job that has never run, so that schedule_job alone wrote its
\* row, holds a next_run at least two intervals after today's start_time and
\* within one interval after now.
C3_Witness ==
    \E id \in JobIds :
        /\ jobs[id] # NoJob
        /\ RunsOf(id) = {}
        /\ jobs[id].next_run >= DateOf(now) + jobs[id].start_time
                                  + 2 * jobs[id].interval_seconds
        /\ jobs[id].next_run > now
        /\ jobs[id].next_run - jobs[id].interval_seconds <= now

\* C4: when a firing has completed, the job's persisted next_run is strictly
\* greater than the current time.
C4_NextRunInFutureAfterFiring ==
    [][FiringCompletes => jobs'[cur.id].next_run > now']_vars

\* C5: over ticks, firings and restarts (the specification has no add or
\* modify of an existing job) a persisted next_run never decreases and changes
\* only by whole multiples of the interval; a stored next_run already in the
\* future is left unchanged when the scheduler starts.
C5_NextRunMonotone ==
    [][\A id \in JobIds :
          jobs[id] # NoJob =>
              LET v == jobs[id].next_run
                  w == jobs'[id].next_run
                  d == jobs[id].interval_seconds
              IN /\ w >= v
                 /\ (w - v) % d = 0
                 /\ (Recovers /\ jobs[id].active /\ v > now) => w = v
      ]_vars

\* C6: on startup, an active job whose stored next_run v is <= now gets
\* v + k * interval for the smallest k >= 1 that makes it greater than now.
C6_RecoveryKeepsPhase ==
    [][Recovers =>
          \A id \in get_all_jobs :
              LET v == jobs[id].next_run
                  w == jobs'[id].next_run
                  d == jobs[id].interval_seconds
              IN v <= now => /\ w > now
                             /\ w - d <= now
                             /\ (w - v) % d = 0
      ]_vars

\* C7: startup recovery inserts no run row, changes none, and launches no
\* process, however far in the past a stored next_run is.
C7_RecoveryRunsNothing ==
    [][Recovers => job_runs' = job_runs /\ cur' = NoCur /\ pc' # "exec"]_vars

\* C7 witness: the scheduler has just loaded a job whose stored next_run was a
\* day or more in the past, and rescheduled it into the future.
C7_Witness ==
    /\ pc = "idle"
    /\ cur = NoCur
    /\ \E id \in JobIds :
          /\ loaded[id] # NoJob
          /\ loaded[id].next_run + Day <= now
          /\ jobs[id].next_run > now

\* C8: a deactivated job stays inactive and no later tick executes it (the
\* specification has no add or schedule_job for an id after its remove, except
\* the startup, which loads active rows only).
C8_DeactivatedStaysOff ==
    [][\A id \in JobIds :
          (jobs[id] # NoJob /\ ~jobs[id].active) =>
              /\ ~jobs'[id].active
              /\ ~(pc = "pending" /\ pc' = "exec" /\ cur'.id = id)
      ]_vars

\* C9: after an execution that ended in error the loop goes on, the job is
\* still registered, its next_run is advanced by one interval, it is fired
\* again when that next_run is reached, and the other registrations stand.
C9_ErrorKeepsSchedule ==
    [][(FiringCompletes /\ cur.exit # "exit0") =>
          LET id == cur.id
              w  == jobs'[id].next_run
          IN /\ registry'[id] # NoReg
             /\ w = jobs[id].next_run + jobs[id].interval_seconds
             /\ (w > now') => registry'[id].next_run = w
             /\ (w <= now') => registry'[id].next_run <= now'
             /\ \A other \in JobIds \ {id} : registry'[other] = registry[other]
      ]_vars

\* C10: when execute returns, the run row it created is closed: end_time is
\* set; status success and return value True exactly when the process exited
\* with status 0; status error and return value False when it exited non-zero
\* or could not be launched; the row is never left in status running.
C10_ExecuteClosesRun ==
    pc = "returned" =>
        LET r == job_runs[cur.run_id]
        IN /\ r.job_id = cur.id
           /\ r.end_time = "set"
           /\ r.status # "running"
           /\ (r.status = "success") <=> (cur.exit = "exit0")
           /\ (exec_ret = TRUE) <=> (cur.exit = "exit0")
           /\ (cur.exit \in {"nonzero", "launch_failed"}) =>
                  (r.status = "error" /\ exec_ret = FALSE)

\* C10 witness: execute has just returned for a process that exited with
\* status 0, after an earlier execution that ended in error.
C10_Witness ==
    /\ pc = "returned"
    /\ cur.exit = "exit0"
    /\ \E i \in 1 .. Len(job_runs) : job_runs[i].status = "error"

\* ------------------------------------------- execute and the script's path

\* The characters ConfigManager.validate_script_path calls dangerous (the
\* backquote is written out: a TLA+ string cannot hold it).
DangerousChars == {"|", "&", ";", "$", ">", "<", "backquote", "\\"}

\* What the checks read of a script path: whether a file is there, the
\* path's suffix, and a dangerous character the path holds ("none": none).
ScriptPaths == [exists : BOOLEAN, suffix : {".py", ".sh"},
                special : DangerousChars \cup {"none"}]

\* ConfigManager.validate_script_path, called by load_config only (add with
\* --config): no dangerous character, the .py ending, an existing file.
validate_script_path(path) ==
    /\ path.special = "none"
    /\ path.suffix = ".py"
    /\ path.exists

\* ScriptExecutor.secure_command, the check execute makes: the resolved path
\* exists and its suffix is .py.
secure_command(path) == path.exists /\ path.suffix = ".py"

\* The one job definition this specification schedules.
ExecDef == <<0, 1>>

\* main, command add without --config: the script argument is stored as given.
AddJobScript(id, path) ==
    /\ id = "j1"
    /\ id = NextId
    /\ jobs' = save_job(jobs, id, JobInfo(now, ExecDef[1], ExecDef[2]))
    /\ script' = [script EXCEPT ![id] = path]
    /\ UNCHANGED <<now, job_runs, pc, registry, job_info, runnable, cur, exec_ret, loaded>>
    /\ UNCHANGED notScript

\* execute from secure_command on: a path secure_command refuses raises
\* ValueError inside the try, which the last except branch records.
ExecuteReturnScript(outcome) ==
    /\ pc = "exec"
    /\ ~secure_command(script[cur.id]) => outcome = "launch_failed"
    /\ ExecuteReturn(outcome)

NextExec ==
    \/ \E id \in JobIds, path \in ScriptPaths : AddJobScript(id, path)
    \/ StartScheduler
    \/ RunPending
    \/ \E id \in JobIds : ExecuteStart(id)
    \/ \E o \in Outcomes : ExecuteReturnScript(o)
    \/ WrapperRest
    \/ StopScheduler
    \/ Tick

SpecExec == Init /\ [][NextExec]_vars

\* C11: an execution request whose script path is invalid (no such file, not
\* the script extension, or a dangerous character in it) creates no run
\* record: the step that starts the call leaves job_runs as it was.
C11_InvalidPathRecordsNothing ==
    [][(pc = "pending" /\ pc' = "exec" /\ ~validate_script_path(script[cur'.id]))
          => job_runs' = job_runs]_vars

\* ----------------------------------------------------------- parse_interval

\* A repeat_time argument is a sequence of characters.  The characters the
\* model types: digits, the three units, a letter that is no unit, a minus.
IntervalChars == {"0", "1", "2", "h", "m", "s", "x", "-"}
Digits == {"0", "1", "2"}
Units == {"h", "m", "s"}

\* The longest argument typed.
MaxLen == 3

Texts == UNION {[1..n -> IntervalChars] : n \in 0..MaxLen}

DigitValue == [c \in Digits |-> IF c = "0" THEN 0 ELSE IF c = "1" THEN 1 ELSE 2]

\* timedelta(hours=1), timedelta(minutes=1), timedelta(seconds=1), in seconds.
UnitSeconds == [u \in Units |-> IF u = "h" THEN 3600 ELSE IF u = "m" THEN 60 ELSE 1]

\* int(match.group(1)): the decimal value of a sequence of digits.
RECURSIVE IntOf(_)
IntOf(ds) ==
    IF ds = <<>> THEN 0
    ELSE 10 * IntOf(SubSeq(ds, 1, Len(ds) - 1)) + DigitValue[ds[Len(ds)]]

\* What \d+ takes at the start of the text: the digits up to the first
\* character that is no digit.
RECURSIVE DigitPrefix(_)
DigitPrefix(text) ==
    IF text # <<>> /\ Head(text) \in Digits THEN 1 + DigitPrefix(Tail(text)) ELSE 0

\* parse_interval: re.match(r"(\d+)([hms])", repeat_time) matches at the start
\* of the text and says nothing of what follows the unit; the timedelta is
\* value hours, minutes or seconds (kept here as its total_seconds()).
parse_interval(text) ==
    LET k == DigitPrefix(text)
    IN IF k >= 1 /\ Len(text) > k /\ text[k + 1] \in Units
       THEN [raised |-> FALSE,
             seconds |-> IntOf(SubSeq(text, 1, k)) * UnitSeconds[text[k + 1]]]
       ELSE Raised

\* A caller hands parse_interval its repeat_time.
ParseInterval ==
    /\ parsed = NotCalled
    /\ parsed' = parse_interval(repeat_time)
    /\ UNCHANGED <<coreVars, notParse, repeat_time>>

InitParse ==
    /\ CoreInit
    /\ ScriptInit
    /\ CliInit
    /\ StartupInit
    /\ LogInit
    /\ ListInit
    /\ SweepInit(1)
    /\ repeat_time \in Texts
    /\ parsed = NotCalled

NextParse == ParseInterval

SpecParse == InitParse /\ [][NextParse]_vars

\* A text of the form <n>h, <n>m or <n>s with n a positive integer, and
\* the duration it denotes.
WellFormedInterval(text) ==
    /\ Len(text) >= 2
    /\ \A i \in 1..(Len(text) - 1) : text[i] \in Digits
    /\ text[Len(text)] \in Units
    /\ IntOf(SubSeq(text, 1, Len(text) - 1)) > 0

DenotedSeconds(text) ==
    IntOf(SubSeq(text, 1, Len(text) - 1)) * UnitSeconds[text[Len(text)]]

\* C13: parse_interval returns exactly n hours, minutes or seconds for
\* <n>h, <n>m, <n>s with n positive, and raises for every other text (no
\* unit, characters after the unit, zero, a minus sign).
C13_ParseIntervalExact ==
    parsed # NotCalled =>
        IF WellFormedInterval(repeat_time)
        THEN parsed = [raised |-> FALSE, seconds |-> DenotedSeconds(repeat_time)]
        ELSE parsed = Raised

\* ------------------------------------------- schedule_job and its arguments

\* In this part the clock stands at midnight of day 0 (now = 0, so the date
\* calculate_next_run combines with is 0) and times are counted in seconds,
\* the unit of parse_interval's result and of column interval_seconds.

\* A start_time argument is the sequence of the numbers between its colons:
\* <<24, 0, 1>> is "24:00:01", <<12, 0>> is "12:00".
StartTexts == {<<0, 0, 0>>, <<0, 0, 5>>, <<24, 0, 0>>, <<24, 0, 1>>, <<25, 0, 0>>,
               <<0, 60, 0>>, <<0, 0, 60>>, <<12, 0>>}

\* The repeat_time arguments the commands are given.
CliRepeatTimes == {<<"1", "h">>, <<"2", "m">>, <<"1", "s">>, <<"0", "s">>,
                   <<"1", "h", "x">>, <<"1">>, <<"-", "1", "h">>, <<>>}

\* schedule_job's first statement: "24:00:00" becomes "00:00:00".
NormalizeStart(text) == IF text = <<24, 0, 0>> THEN <<0, 0, 0>> ELSE text

\* Whether datetime.strptime(text, "%H:%M:%S") returns: three fields, the
\* hour up to 23, minute and second up to 59.
strptime_ok(text) ==
    /\ Len(text) = 3
    /\ text[1] \in 0..23
    /\ text[2] \in 0..59
    /\ text[3] \in 0..59

\* The time of day strptime returned, in seconds.
SecondsOfDay(text) == 3600 * text[1] + 60 * text[2] + text[3]

\* How a call of schedule_job ends: "error" when parse_interval or strptime
\* raised, "hung" when calculate_next_run's loop adds a zero interval to a
\* first_run that is not after now, "ok" otherwise.
schedule_job_end(start_text, repeat_text) ==
    LET start == NormalizeStart(start_text)
        iv    == parse_interval(repeat_text)
    IN IF iv = Raised THEN "error"
       ELSE IF ~strptime_ok(start) THEN "error"
       ELSE IF iv.seconds = 0 /\ DateOf(now) + SecondsOfDay(start) <= now THEN "hung"
       ELSE "ok"

\* The table after schedule_job: the row is written when the call got as far
\* as save_job.
schedule_job(table, id, start_text, repeat_text) ==
    IF schedule_job_end(start_text, repeat_text) = "ok"
    THEN save_job(table, id,
                  JobInfo(now, SecondsOfDay(NormalizeStart(start_text)),
                          parse_interval(repeat_text).seconds))
    ELSE table

\* main, command add with --id, --start_time, --repeat_time: schedule_job;
\* an exception is printed and the process exits with status 1.
CliAdd(id, start_text, repeat_text) ==
    /\ argv' = [command |-> "add", id |-> id, start_time |-> start_text,
                repeat_time |-> repeat_text]
    /\ cli_exit' = schedule_job_end(start_text, repeat_text)
    /\ jobs' = schedule_job(jobs, id, start_text, repeat_text)
    /\ UNCHANGED <<now, job_runs, pc, registry, job_info, runnable, cur, exec_ret, loaded>>
    /\ UNCHANGED notCli

\* main, command mod with --start_time and --repeat_time given: exit 1 when
\* get_job finds no active row, schedule_job otherwise.
CliMod(id, start_text, repeat_text) ==
    /\ argv' = [command |-> "mod", id |-> id, start_time |-> start_text,
                repeat_time |-> repeat_text]
    /\ IF get_job(id) = NoJob
       THEN cli_exit' = "error" /\ jobs' = jobs
       ELSE /\ cli_exit' = schedule_job_end(start_text, repeat_text)
            /\ jobs' = schedule_job(jobs, id, start_text, repeat_text)
    /\ UNCHANGED <<now, job_runs, pc, registry, job_info, runnable, cur, exec_ret, loaded>>
    /\ UNCHANGED notCli

NextCli ==
    \/ \E id \in JobIds, st \in StartTexts, rt \in CliRepeatTimes : CliAdd(id, st, rt)
    \/ \E id \in JobIds, st \in StartTexts, rt \in CliRepeatTimes : CliMod(id, st, rt)

SpecCli == Init /\ [][NextCli]_vars

\* A start time that is a valid HH:MM:SS time of day; "24:00:00" stands for
\* midnight.
ValidStartTime(text) ==
    \/ text = <<24, 0, 0>>
    \/ Len(text) = 3 /\ text[1] \in 0..23 /\ text[2] \in 0..59 /\ text[3] \in 0..59

\* C12: an add or mod command whose repeat_time is not <positive integer>
\* followed by h, m or s, or whose start_time is no valid HH:MM:SS time, ends
\* with an error and leaves table jobs as it was.
C12_InvalidDefinitionNotPersisted ==
    [][(argv'.command # "none"
        /\ (~WellFormedInterval(argv'.repeat_time) \/ ~ValidStartTime(argv'.start_time)))
          => (cli_exit' = "error" /\ jobs' = jobs)]_vars

\* ------------------------------------ the loop stopped at any of its points

\* KeyboardInterrupt is raised between any two statements of the run
\* process, so here job_wrapper's tail is taken statement by statement.

\* job_wrapper, line 510: job_info['next_run'] += job_info['interval'].
WrapperAdvance ==
    /\ pc = "returned"
    /\ job_info' = [job_info EXCEPT ![cur.id] = AdvanceInfo(job_info[cur.id])]
    /\ exec_ret' = "none"
    /\ pc' = "advanced"
    /\ UNCHANGED <<now, jobs, job_runs, registry, runnable, cur, loaded>>
    /\ UNCHANGED auxVars

\* job_wrapper, lines 511 to 514: save_job, clear the tag, register again.
WrapperSave ==
    /\ pc = "advanced"
    /\ jobs' = save_job(jobs, cur.id, job_info[cur.id])
    /\ registry' = [registry EXCEPT
                      ![cur.id] = RegisterDaily(now, TimeOf(job_info[cur.id].next_run))]
    /\ cur' = NoCur
    /\ pc' = IF runnable = {} THEN "idle" ELSE "pending"
    /\ UNCHANGED <<now, job_runs, job_info, runnable, exec_ret, loaded>>
    /\ UNCHANGED auxVars

NextSignal ==
    \/ \E id \in JobIds, def \in JobDefs : AddJob(id, def[1], def[2])
    \/ \E id \in JobIds : RemoveJob(id)
    \/ StartScheduler
    \/ RunPending
    \/ \E id \in JobIds : ExecuteStart(id)
    \/ \E o \in Outcomes : ExecuteReturn(o)
    \/ WrapperAdvance
    \/ WrapperSave
    \/ StopScheduler
    \/ Tick

SpecSignal == Init /\ [][NextSignal]_vars

\* C14: when the loop is stopped, at any of its points, every job the loop
\* holds that is active in the store has, after the exit, the persisted
\* next_run the loop held in memory when the signal came.
C14_StopPersistsSchedule ==
    [][(pc # "down" /\ pc' = "down")
          => \A id \in JobIds :
                (job_info[id] # NoInfo /\ get_job(id) # NoJob)
                   => (jobs'[id] # NoJob /\ jobs'[id].active
                       /\ jobs'[id].next_run = job_info[id].next_run)]_vars

\* ------------------------------------------- startup with a job that fails

\* The active row the startup loop reaches first among those in ids.
FirstOf(ids) == CHOOSE id \in ids : \A other \in ids : IdOrder[id] <= IdOrder[other]

\* main, command run, up to the loop, when schedule_job raises for the jobs
\* in failing (sqlite3.Error out of save_job, or ValueError for a row whose
\* texts no longer parse).  The for loop stands in a try whose only handler
\* is for KeyboardInterrupt: the first exception ends the process, after
\* the rows before it were scheduled and saved.
StartSchedulerFailing(failing) ==
    /\ pc = "down"
    /\ failing # {}
    /\ failing \subseteq get_all_jobs
    /\ LET first == FirstOf(failing)
           done  == {id \in get_all_jobs : IdOrder[id] < IdOrder[first]}
           info(id) == JobInfo(now, jobs[id].start_time, jobs[id].interval_seconds)
       IN /\ jobs' = [id \in JobIds |->
                        IF id \in done THEN save_job(jobs, id, info(id))[id]
                        ELSE jobs[id]]
          /\ startup_error' = {first}
    /\ UNCHANGED <<now, job_runs, pc, registry, job_info, runnable, cur, exec_ret, loaded>>
    /\ UNCHANGED notStartup

\* The same startup when no schedule_job raises.
StartSchedulerClean ==
    /\ pc = "down"
    /\ loaded' = [id \in JobIds |-> get_job(id)]
    /\ ScheduleLoaded
    /\ pc' = "idle"
    /\ startup_error' = {}
    /\ UNCHANGED <<now, job_runs, runnable, cur, exec_ret>>
    /\ UNCHANGED notStartup

NextStartup ==
    \/ \E id \in JobIds, def \in JobDefs : AddJob(id, def[1], def[2])
    \/ \E failing \in SUBSET JobIds : StartSchedulerFailing(failing)
    \/ StartSchedulerClean
    \/ RunPending
    \/ \E id \in JobIds : ExecuteStart(id)
    \/ \E o \in Outcomes : ExecuteReturn(o)
    \/ WrapperRest
    \/ StopScheduler
    \/ Tick

SpecStartup == Init /\ [][NextStartup]_vars

\* C15: when schedule_job fails for one active job during startup, the loop
\* still starts and every other active job is registered in it.
C15_StartupSurvivesOneFailure ==
    [][(pc = "down" /\ startup_error = {} /\ startup_error' # {})
          => (pc' = "idle"
              /\ \A id \in get_all_jobs \ startup_error' : registry'[id] # NoReg)]_vars

\* --------------------------------------------------------------- deactivate

\* C16: the remove command on an existing job takes it out of get_all_jobs
\* and makes get_job return nothing for it, keeps its row with every other
\* column as it was, and leaves job_runs and the rows of the other jobs
\* unchanged.
C16_DeactivateKeepsRow ==
    [][\A id \in JobIds :
          RemoveJob(id) =>
             /\ id \notin get_all_jobs'
             /\ get_job(id)' = NoJob
             /\ jobs'[id] # NoJob
             /\ jobs'[id] = [jobs[id] EXCEPT !.active = FALSE]
             /\ job_runs' = job_runs
             /\ \A other \in JobIds \ {id} : jobs'[other] = jobs[other]]_vars

\* A job with a run record was deactivated while another job is active.
C16_Witness ==
    \E id \in JobIds :
        /\ jobs[id] # NoJob
        /\ ~jobs[id].active
        /\ RunsOf(id) # {}
        /\ get_all_jobs # {}

\* ------------------------------------------------------ the log directories

\* The names the commands give a job: sequences of characters, shorter
\* than the 30 characters get_job_log_directory truncates to.
Names == {<<"a">>, <<"A", " ">>}

\* At most MaxDirs directories are ever made under log_dir.
MaxDirs == 3

\* The one job definition of this part; its repeat_time text is the same in
\* every command, so a directory name is told by the sanitized job name.
LogDef == <<0, 1>>

\* get_job_log_directory's cleaning of one character: letters, digits, "_"
\* and "-" are kept, anything else becomes "_"; then lower().
SanitizeChar(c) == IF c = "A" THEN "a" ELSE IF c = " " THEN "_" ELSE c

Sanitize(text) == [i \in 1..Len(text) |-> SanitizeChar(text[i])]

\* A directory under log_dir: the base name and the numeric suffix appended
\* to it (0: no suffix).
Dir(base, n) == [base |-> base, suffix |-> n]

\* The while loop of get_job_log_directory: the first suffix not taken.
RECURSIVE FirstFreeSuffix(_, _)
FirstFreeSuffix(base, n) ==
    IF Dir(base, n) \in dirs THEN FirstFreeSuffix(base, n + 1) ELSE n

\* get_job_log_directory: the log_path of the active row when there is one,
\* else the base name, with a suffix when that directory exists.
get_job_log_directory(id, text) ==
    IF get_job(id) # NoJob /\ log_path[id] # NoPath THEN log_path[id]
    ELSE IF Dir(Sanitize(text), 0) \notin dirs THEN Dir(Sanitize(text), 0)
    ELSE Dir(Sanitize(text), FirstFreeSuffix(Sanitize(text), 1))

\* schedule_job, lines 486 to 490, and the save: the log_path of the active
\* row is kept, a job without one gets get_job_log_directory's.
ScheduleLog(id, text) ==
    LET path == get_job_log_directory(id, text)
    IN /\ path \notin dirs => Cardinality(dirs) < MaxDirs
       /\ dirs' = dirs \cup {path}
       /\ log_path' = [log_path EXCEPT ![id] = path]
       /\ job_name' = [job_name EXCEPT ![id] = text]
       /\ jobs' = save_job(jobs, id, JobInfo(now, LogDef[1], LogDef[2]))

\* main, command add with --id and --name, for an id that is new or was
\* removed.  This part schedules one job.
LogAdd(id, text) ==
    /\ id = "j1"
    /\ id = NextId \/ (jobs[id] # NoJob /\ ~jobs[id].active)
    /\ ScheduleLog(id, text)
    /\ UNCHANGED <<now, job_runs, pc, registry, job_info, runnable, cur, exec_ret, loaded>>
    /\ UNCHANGED <<info_log, notLog>>

\* main, command mod with --name.
LogMod(id, text) ==
    /\ get_job(id) # NoJob
    /\ ScheduleLog(id, text)
    /\ UNCHANGED <<now, job_runs, pc, registry, job_info, runnable, cur, exec_ret, loaded>>
    /\ UNCHANGED <<info_log, notLog>>

\* main, command run, up to the loop: every active row has a log_path, which
\* schedule_job copies into job_info and saves back.
LogStart ==
    /\ pc = "down"
    /\ loaded' = [id \in JobIds |-> get_job(id)]
    /\ ScheduleLoaded
    /\ pc' = "idle"
    /\ info_log' = [id \in JobIds |->
                      IF id \in get_all_jobs
                      THEN [name |-> job_name[id], log_path |-> log_path[id]]
                      ELSE NoInfo]
    /\ UNCHANGED <<now, job_runs, runnable, cur, exec_ret>>
    /\ UNCHANGED <<job_name, log_path, dirs, notLog>>

\* One firing, from run_pending to the end of job_wrapper: execute asks
\* get_job_log_file for the directory (made if it is not there), records the
\* run and its end; job_wrapper saves job_info, name and log_path included.
LogFire(id, outcome) ==
    /\ pc = "idle"
    /\ id \in ShouldRun
    /\ \A other \in ShouldRun : registry[id].next_run <= registry[other].next_run
    /\ Len(job_runs) < MaxRuns
    /\ LET path == get_job_log_directory(id, info_log[id].name)
       IN /\ path \notin dirs => Cardinality(dirs) < MaxDirs
          /\ dirs' = dirs \cup {path}
    /\ job_runs' = update_job_run(record_job_run(job_runs, id), Len(job_runs) + 1,
                                  StatusOf(outcome))
    /\ LET info == AdvanceInfo(job_info[id])
       IN /\ job_info' = [job_info EXCEPT ![id] = info]
          /\ jobs' = save_job(jobs, id, info)
          /\ registry' = [registry EXCEPT ![id] = RegisterDaily(now, TimeOf(info.next_run))]
    /\ job_name' = [job_name EXCEPT ![id] = info_log[id].name]
    /\ log_path' = [log_path EXCEPT ![id] = info_log[id].log_path]
    /\ loaded' = Nothing
    /\ UNCHANGED <<now, pc, runnable, cur, exec_ret>>
    /\ UNCHANGED <<info_log, notLog>>

\* KeyboardInterrupt: the closures go with the run process.
LogStop ==
    /\ pc # "down"
    /\ pc' = "down"
    /\ registry' = [id \in JobIds |-> NoReg]
    /\ job_info' = [id \in JobIds |-> NoInfo]
    /\ info_log' = [id \in JobIds |-> NoInfo]
    /\ loaded' = Nothing
    /\ UNCHANGED <<now, jobs, job_runs, runnable, cur, exec_ret>>
    /\ UNCHANGED <<job_name, log_path, dirs, notLog>>

NextLog ==
    \/ \E id \in JobIds, text \in Names : LogAdd(id, text)
    \/ \E id \in JobIds, text \in Names : LogMod(id, text)
    \/ \E id \in JobIds : RemoveJob(id)
    \/ LogStart
    \/ \E id \in JobIds, o \in Outcomes : LogFire(id, o)
    \/ LogStop
    \/ Tick

SpecLog == Init /\ [][NextLog]_vars

\* C17: once a job has a log_path, no step changes it: not a firing, not a
\* mod, not a restart, not an add of the id after it was removed.
C17_LogPathStable ==
    [][\A id \in JobIds : log_path[id] # NoPath => log_path'[id] = log_path[id]]_vars

\* ------------------------------------------------------ the retention sweep

\* At most MaxFiles files exist under log_dir at a time.
MaxFiles == 2

\* The log_retention a job is added with: a profile's value (add --config),
\* or none (add with arguments).
ProfileRetentions == {NoRetention, [days |-> 1]}

\* What a retention.txt holds: a number of days, or text that is no number.
OverrideTexts == {<<"1">>, <<"x">>}

\* The job name of this part.
SweepName == <<"a">>

\* main, command add: schedule_job hands log_retention to
\* get_job_log_directory, which makes the directory and nothing in it, and
\* saves the value in the row.  The one job of this part is added before
\* the clock moves.
SweepAdd(id, retention) ==
    /\ id = "j1"
    /\ id = NextId
    /\ now = 0
    /\ ScheduleLog(id, SweepName)
    /\ log_retention' = [log_retention EXCEPT ![id] = retention]
    /\ UNCHANGED <<now, job_runs, pc, registry, job_info, runnable, cur, exec_ret, loaded>>
    /\ UNCHANGED <<info_log, files, last_cleanup_check, global_retention, removed>>
    /\ UNCHANGED notLogOrSweep

\* An execution of job id opens its log file in the job's directory.
WriteJobLog(id) ==
    /\ log_path[id] # NoPath
    /\ Cardinality(files) < MaxFiles
    /\ files' = files \cup {[dir |-> log_path[id], kind |-> "log", birth |-> now,
                             ctime |-> now, text |-> <<>>]}
    /\ UNCHANGED <<coreVars, notLogOrSweep, logVars>>
    /\ UNCHANGED <<last_cleanup_check, global_retention, log_retention, removed>>

\* Somebody puts a retention.txt into a directory (no statement of the
\* program writes one).
WriteOverride(dir, text) ==
    /\ dir \in dirs
    /\ \A f \in files : ~(f.dir = dir /\ f.kind = "retention.txt")
    /\ Cardinality(files) < MaxFiles
    /\ files' = files \cup {[dir |-> dir, kind |-> "retention.txt", birth |-> now,
                             ctime |-> now, text |-> text]}
    /\ UNCHANGED <<coreVars, notLogOrSweep, logVars>>
    /\ UNCHANGED <<last_cleanup_check, global_retention, log_retention, removed>>

\* A logging call appends a line to the main log file.  os.path.getctime is
\* the time of the last change of the inode where os.name is posix, so the
\* write moves it to now; where os.name is nt it is the creation time and
\* the write leaves it (a step that changes nothing).
AppendMainLog ==
    /\ \E f \in files :
          /\ f.dir = RootDir
          /\ f.kind = "log"
          /\ f.ctime < now
          /\ files' = (files \ {f}) \cup {[f EXCEPT !.ctime = now]}
    /\ UNCHANGED <<coreVars, notLogOrSweep, logVars>>
    /\ UNCHANGED <<last_cleanup_check, global_retention, log_retention, removed>>

\* time.sleep(1) in the loop, many times over; the clock of this part runs
\* for two days.
Sleep ==
    /\ now < 2 * Day
    /\ now' = now + 1
    /\ UNCHANGED <<jobs, job_runs, pc, registry, job_info, runnable, cur, exec_ret, loaded>>
    /\ UNCHANGED auxVars

\* clear_old_logs, lines 342 to 350: int() of the directory's retention.txt
\* when there is one and it holds a number, the global value otherwise.
retention_days(dir) ==
    LET override == {f \in files : f.dir = dir /\ f.kind = "retention.txt"}
    IN IF override = {} THEN global_retention
       ELSE LET text == (CHOOSE f \in override : TRUE).text
            IN IF text # <<>> /\ \A i \in 1..Len(text) : text[i] \in Digits
               THEN IntOf(text)
               ELSE global_retention

\* clear_old_logs, lines 354 and 355: file_creation_time is getctime's value;
\* now - file_creation_time > retention_period.
Expired(f) == now - f.ctime > retention_days(f.dir) * Day

\* The gate with a shorter period: closed for less than a day minus a quantum.
GateClosedShort(force) == ~force /\ now - last_cleanup_check < Day - 1

\* clear_old_logs, line 333: not force and less than 86400 seconds since
\* last_cleanup_check.
GateClosed(force) == ~force /\ now - last_cleanup_check < Day

\* clear_old_logs: return at once behind the gate; else restart the gate and
\* walk log_dir and every directory under it, removing the expired files.
ClearOldLogs(force) ==
    /\ IF GateClosed(force)
       THEN UNCHANGED <<files, last_cleanup_check, removed>>
       ELSE /\ last_cleanup_check' = now
            /\ files' = {f \in files : ~Expired(f)}
            /\ removed' = {f \in files : Expired(f)}
    /\ UNCHANGED <<coreVars, notLogOrSweep, logVars>>
    /\ UNCHANGED <<global_retention, log_retention>>

InitSweep ==
    /\ CoreInit
    /\ ScriptInit
    /\ ParseInit
    /\ CliInit
    /\ StartupInit
    /\ LogInit
    /\ ListInit
    /\ \E days \in GlobalRetentions : SweepInit(days)

NextSweep ==
    \/ \E id \in JobIds, r \in ProfileRetentions : SweepAdd(id, r)
    \/ \E id \in JobIds : WriteJobLog(id)
    \/ \E dir \in dirs, text \in OverrideTexts : WriteOverride(dir, text)
    \/ AppendMainLog
    \/ Sleep
    \/ \E force \in BOOLEAN : ClearOldLogs(force)

SpecSweep == InitSweep /\ [][NextSweep]_vars

\* A step in which a sweep ran.
SweepRan == \E force \in BOOLEAN : ClearOldLogs(force) /\ ~GateClosed(force)

\* The window the claim gives job id: its log_retention, the global default
\* when that is NULL.
JobWindow(id) ==
    IF log_retention[id] = NoRetention THEN global_retention
    ELSE log_retention[id].days

\* C18: a sweep that ran deleted a file of a job's log directory exactly
\* when the file was older than the job's log_retention days, or than the
\* global default for a job without one.
C18_SweepAppliesJobRetention ==
    [][SweepRan =>
          \A id \in JobIds : \A f \in files :
             (log_path[id] # NoPath /\ f.dir = log_path[id] /\ f.kind = "log")
                => (f \notin files' <=> now - f.birth > JobWindow(id) * Day)]_vars

\* The window the claim gives a directory: the number in its override file
\* when it has one, the global default otherwise.
DirWindow(dir) ==
    LET numbers == {f \in files : /\ f.dir = dir
                                  /\ f.kind = "retention.txt"
                                  /\ f.text # <<>>
                                  /\ \A i \in 1..Len(f.text) : f.text[i] \in Digits}
    IN IF numbers = {} THEN global_retention
       ELSE IntOf((CHOOSE f \in numbers : TRUE).text)

\* C19: a sweep that ran deleted a file under log_dir exactly when its age,
\* now minus its creation time, exceeded the window of its directory; a file
\* not older than the window was kept.
C19_SweepDeletesExactlyExpired ==
    [][SweepRan =>
          \A f \in files : (f \notin files' <=> now - f.birth > DirWindow(f.dir) * Day)]_vars

\* C20: a call without force changes nothing unless at least a day has
\* passed since last_cleanup_check (the last sweep that ran, or the creation
\* of the LogManager), and then it runs and restarts the gate; a call with
\* force always runs and restarts the gate.
C20_SweepGate ==
    [][/\ ClearOldLogs(FALSE) =>
             IF now - last_cleanup_check >= Day
             THEN last_cleanup_check' = now
             ELSE UNCHANGED <<files, last_cleanup_check>>
       /\ ClearOldLogs(TRUE) => last_cleanup_check' = now]_vars

\* A sweep ran a day or more after the start, and the calls since then are
\* behind the gate.
C20_Witness ==
    /\ last_cleanup_check >= Day
    /\ now > last_cleanup_check
    /\ now - last_cleanup_check < Day

\* ------------------------------------------- a sweep in which one file fails

\* os.walk, top-down: log_dir's own files come first, then the directories
\* under it one after the other, in the order the file system lists them.
\* before is a set of files the walk can have handled when it comes to bad.
WalkedBefore(bad, before) ==
    /\ before \subseteq files \ {bad}
    /\ \A f \in files \ {bad} :
          (f.dir = RootDir /\ bad.dir # RootDir) => f \in before
    /\ \A f \in before : bad.dir = RootDir => f.dir = RootDir
    /\ \A f \in before : \A g \in files \ (before \cup {bad}) :
          f.dir = g.dir => f.dir = bad.dir

\* clear_old_logs when os.path.getctime or os.remove raises on the file bad
\* (it was removed by somebody in between, or the process may not unlink
\* it): the one try statement encloses the whole walk, so the handler of
\* line 357 logs the error and the function returns.  The files handled
\* before bad were removed when expired; bad and the files after it stay.
ClearOldLogsFailing(force, bad, before) ==
    /\ ~GateClosed(force)
    /\ bad \in files
    /\ WalkedBefore(bad, before)
    /\ last_cleanup_check' = now
    /\ files' = files \ {f \in before : Expired(f)}
    /\ removed' = {f \in before : Expired(f)}
    /\ UNCHANGED <<coreVars, notLogOrSweep, logVars>>
    /\ UNCHANGED <<global_retention, log_retention>>

NextSweepFail ==
    \/ NextSweep
    \/ \E force \in BOOLEAN : \E bad \in files : \E before \in SUBSET files :
          ClearOldLogsFailing(force, bad, before)

SpecSweepFail == InitSweep /\ [][NextSweepFail]_vars

\* C21: in a sweep where the inspection or the deletion of one file fails,
\* every other file older than the window of its directory is deleted by
\* that same sweep.
C21_SweepGoesOnAfterFailure ==
    [][\A force \in BOOLEAN : \A bad \in files : \A before \in SUBSET files :
          ClearOldLogsFailing(force, bad, before) =>
             \A f \in files \ {bad} : Expired(f) => f \notin files']_vars

\* ------------------------------------- a modify while the loop is running

\* What mod is given for --start_time and for --repeat_time (as seconds):
\* a value, or nothing, and then the row's value is taken.
NotGiven == [given |-> FALSE, value |-> 0]
ModStartTimes == {NotGiven, [given |-> TRUE, value |-> 1]}
ModIntervals == {NotGiven, [given |-> TRUE, value |-> 2]}

\* main, command mod, in a process of its own: the arguments given overlay
\* the active row, and schedule_job computes next_run anew and saves the
\* row.  The registration it makes dies with that process.  This part
\* follows the modifications made while the loop is running.
ModJob(id, start_arg, repeat_arg) ==
    /\ pc # "down"
    /\ get_job(id) # NoJob
    /\ LET job == get_job(id)
           new_start_time == IF start_arg.given THEN start_arg.value ELSE job.start_time
           new_interval == IF repeat_arg.given THEN repeat_arg.value
                           ELSE job.interval_seconds
       IN jobs' = save_job(jobs, id, JobInfo(now, new_start_time, new_interval))
    /\ UNCHANGED <<now, job_runs, pc, registry, job_info, runnable, cur, exec_ret, loaded>>
    /\ UNCHANGED auxVars

\* The loop runs on; jobs are added and modified by other processes.
NextMod ==
    \/ \E id \in JobIds, def \in JobDefs : AddJob(id, def[1], def[2])
    \/ StartScheduler
    \/ RunPending
    \/ \E id \in JobIds : ExecuteStart(id)
    \/ \E o \in Outcomes : ExecuteReturn(o)
    \/ WrapperRest
    \/ Tick
    \/ \E id \in JobIds, s \in ModStartTimes, r \in ModIntervals : ModJob(id, s, r)

SpecMod == Init /\ [][NextMod]_vars

\* C23: the step that completes a firing leaves start_time and the interval
\* of the fired job's row as they were in the table just before it, and
\* leaves every other job's row as it was.
C23_FiringKeepsDefinition ==
    [][FiringCompletes =>
          /\ jobs'[cur.id].start_time = jobs[cur.id].start_time
          /\ jobs'[cur.id].interval_seconds = jobs[cur.id].interval_seconds
          /\ \A other \in JobIds \ {cur.id} : jobs'[other] = jobs[other]]_vars

\* ------------------------------- schedule_job called again in one process

\* schedule's job list holds at most MaxRegs Job objects.
MaxRegs == 3

\* The Job object schedule_job and job_wrapper register: every().day
\* .at(next_run's time of day).do(job_wrapper).tag(id), with the job_info
\* dict of the closure job_wrapper.
Registration(id, info) ==
    [tag      |-> id,
     next_run |-> RegisterDaily(now, TimeOf(info.next_run)).next_run,
     info     |-> info]

\* schedule.clear(tag): the Job objects with that tag leave the list.
ClearTag(list, tag) == SelectSeq(list, LAMBDA job : job.tag # tag)

\* sorted(runnable_jobs): the Job objects of a set of positions of the
\* list, by next_run, in the order of the list where next_run is equal.
RECURSIVE SortedJobs(_)
SortedJobs(positions) ==
    IF positions = {} THEN <<>>
    ELSE LET first == CHOOSE i \in positions : \A j \in positions :
                         \/ schedule_jobs[i].next_run < schedule_jobs[j].next_run
                         \/ /\ schedule_jobs[i].next_run = schedule_jobs[j].next_run
                            /\ i <= j
         IN <<schedule_jobs[first]>> \o SortedJobs(positions \ {first})

\* The positions of the list whose Job object should run.
DuePositions == {i \in DOMAIN schedule_jobs : now >= schedule_jobs[i].next_run}

\* Scheduler.schedule_job in the process that holds the list: job_info is
\* built, a Job object is added to the list (line 515, no schedule.clear
\* comes before it), and the row is saved.
ScheduleJobCall(id, start_time, interval) ==
    /\ pending_jobs = <<>>
    /\ Len(schedule_jobs) < MaxRegs
    /\ LET info == JobInfo(now, start_time, interval)
       IN /\ schedule_jobs' = Append(schedule_jobs, Registration(id, info))
          /\ jobs' = save_job(jobs, id, info)
    /\ UNCHANGED <<now, job_runs, pc, registry, job_info, runnable, cur, exec_ret, loaded>>
    /\ UNCHANGED <<pending_jobs, notList>>

\* schedule.run_pending: the sorted list of the Job objects that should run.
ListRunPending ==
    /\ pending_jobs = <<>>
    /\ DuePositions # {}
    /\ pending_jobs' = SortedJobs(DuePositions)
    /\ UNCHANGED <<coreVars, schedule_jobs, notList>>

\* run_pending runs the next Job object of its list, still in the list of
\* schedule or not: job_wrapper calls execute (a run row, closed when the
\* process has ended), advances its job_info, saves the row, clears the
\* tag and registers itself again.
ListFire(outcome) ==
    /\ pending_jobs # <<>>
    /\ Len(job_runs) < MaxRuns
    /\ LET job == Head(pending_jobs)
           info == AdvanceInfo(job.info)
       IN /\ job_runs' = update_job_run(record_job_run(job_runs, job.tag),
                                        Len(job_runs) + 1, StatusOf(outcome))
          /\ jobs' = save_job(jobs, job.tag, info)
          /\ schedule_jobs' = Append(ClearTag(schedule_jobs, job.tag),
                                     Registration(job.tag, info))
    /\ pending_jobs' = Tail(pending_jobs)
    /\ UNCHANGED <<now, pc, registry, job_info, runnable, cur, exec_ret, loaded>>
    /\ UNCHANGED notList

\* time.sleep(1) after run_pending found nothing due.
ListSleep ==
    /\ pending_jobs = <<>>
    /\ DuePositions = {}
    /\ now < MaxTime
    /\ now' = now + 1
    /\ UNCHANGED <<jobs, job_runs, pc, registry, job_info, runnable, cur, exec_ret, loaded>>
    /\ UNCHANGED auxVars

NextList ==
    \/ \E id \in JobIds, def \in JobDefs : ScheduleJobCall(id, def[1], def[2])
    \/ ListRunPending
    \/ \E o \in Outcomes : ListFire(o)
    \/ ListSleep

SpecList == Init /\ [][NextList]_vars

\* The Job objects of a list that carry the tag id.
TaggedIn(list, id) == {i \in DOMAIN list : list[i].tag = id}

\* C22: schedule's list holds at most one Job object per job id, a call of
\* run_pending runs a job at most once, and the definition a Job object
\* runs with is the job's latest, the one of its row.
C22_OneRegistrationPerJob ==
    \A id \in JobIds :
        /\ Cardinality(TaggedIn(schedule_jobs, id)) <= 1
        /\ Cardinality(TaggedIn(pending_jobs, id)) <= 1
        /\ \A i \in TaggedIn(schedule_jobs, id) \cup TaggedIn(pending_jobs, id) :
              LET job == IF i \in TaggedIn(schedule_jobs, id) THEN schedule_jobs[i]
                         ELSE pending_jobs[i]
              IN /\ job.info.start_time = jobs[id].start_time
                 /\ job.info.interval_seconds = jobs[id].interval_seconds

\* ------------------------------------------- run rows after an execution

\* The run row whose process is running: the one of the execute call in
\* progress, between record_job_run and the end of the process.
ProcessRunning(i) == pc = "exec" /\ cur.run_id = i

\* C24: every run row whose process is no longer running has status
\* success or error and an end_time, whatever firings, stops of the loop
\* during an execution and restarts came before.
C24_NoRunLeftRunning ==
    \A i \in 1 .. Len(job_runs) :
        \/ ProcessRunning(i)
        \/ /\ job_runs[i].status \in {"success", "error"}
           /\ job_runs[i].end_time = "set"

\* -------------------------------------------- schedule_job comes to an end

\* C25: an add or mod command whose repeat_time parse_interval accepts and
\* whose start_time strptime accepts comes to an end: the loop of
\* calculate_next_run halts.
C25_ScheduleJobTerminates ==
    (/\ argv.command # "none"
     /\ parse_interval(argv.repeat_time) # Raised
     /\ strptime_ok(NormalizeStart(argv.start_time)))
        => cli_exit \in {"ok", "error"}

\* --------------------------------------------- the sweep and retention.txt

\* C26: a sweep that ran left every retention.txt where it was, and the
\* files it deleted were older than the window of their directory.
C26_SweeperKeepsOverride ==
    [][SweepRan =>
          /\ \A f \in files : f.kind = "retention.txt" => f \in files'
          /\ \A f \in files \ files' : now - f.birth > DirWindow(f.dir) * Day]_vars
====
